---------------------------- MODULE Spec2Model ----------------------------
(***************************************************************************)
(* Model of the tabbed-box script "Box Maker/Box Maker.py": the parameter  *)
(* lookup of run, the panel layout, the finger-joint edge generator        *)
(* finger_edge and the seam table that calls it through replace_edge.      *)
(* Two more scripts of the repository are modelled on their own: the run   *)
(* of "FitSizer/FitSizer.py" and the command definitions and toolbar      *)
(* buttons of the add-in "Insert_TwoBy/Insert_TwoBy.py".                   *)
(*                                                                         *)
(* Lengths.  The script computes in Fusion's internal unit with floats.    *)
(* The model computes in integers: one millimetre is Scale model units,    *)
(* and Scale is divisible by 2n for every odd segment count n <= 15, by 10 *)
(* (kerf is given in tenths of a millimetre) and by 8, so that pitch and   *)
(* half, which the script obtains by float division, are exact here.       *)
(* The threshold 1e-7 of the script is Eps, a length below every length    *)
(* that is a multiple of a tenth of a millimetre.                          *)
(***************************************************************************)
EXTENDS Integers, Sequences, FiniteSets, TLC

VARIABLES
    design,     \* TRUE when app.activeProduct casts to a Design
    params,     \* design.userParameters: name -> value (internal units)
    pc,         \* position of run
    idx,        \* index within the current phase of run
    runs,       \* number of calls of run started so far
    L, W, H, T, K,   \* locals of run
    pnames,     \* L_name, W_name, H_name, T_name, K_name, in that order
    added,      \* names this run added to design.userParameters, in order
    src0,       \* design.userParameters as they were when this run began
    prev,       \* what the previous run ended with (<<>> before the first)
    sk,         \* sketch lines of this run's sketch, in creation order
    panels,     \* panel name -> indices in sk of bottom, right, top, left
    calls,      \* one record per replace_edge call this run completed
    profs,      \* snapshot of sk.profiles: the panel each profile outlines
    bodies,     \* extrusions requested this run, in order
    ui,         \* message boxes shown this run
    log,        \* app.log entries written this run
    feCall,     \* edge-generator harness: <<>> or <<[args, out]>>
    fit,        \* FitSizer's run: position, locals and the bodies it made
    addin       \* Insert_TwoBy: the host's UI and the add-in's position

vars == <<design, params, pc, idx, runs, L, W, H, T, K, pnames, added, src0, prev,
          sk, panels, calls, profs, bodies, ui, log, feCall, fit, addin>>

runVars == <<design, params, pc, idx, runs, L, W, H, T, K, pnames, added,
             src0, prev, sk, panels, calls, profs, bodies, ui, log>>

-----------------------------------------------------------------------------
(* Units *)

\* model units per millimetre: 2^3 * 3^2 * 5 * 7 * 11 * 13
Scale == 8 * 9 * 5 * 7 * 11 * 13

\* the script's 1e-7 (lines 82 and 86), in model units
Eps == 2

\* um.evaluateExpression(f"{val_mm} mm", "cm"); val is in tenths of a mm
mm_to_internal(val_tenth_mm) == val_tenth_mm * (Scale \div 10)

Mm(v) == mm_to_internal(10 * v)

-----------------------------------------------------------------------------
(* Geometry primitives (adsk.core.Point3D / Vector3D in the plane z = 0) *)

Abs(x) == IF x < 0 THEN -x ELSE x

Max(a, b) == IF a >= b THEN a ELSE b

pt(x, y) == <<x, y>>

\* Vector3D.length, for the axis-aligned vectors the script builds
VecLength(v) == Abs(v[1]) + Abs(v[2])

\* Vector3D.normalize: leaves a zero vector as it is
Normalize(v) ==
    IF VecLength(v) = 0 THEN v
    ELSE <<v[1] \div VecLength(v), v[2] \div VecLength(v)>>

\* round mutated: ties go down
PyRoundHalfDown(a, b) ==
    IF 2 * (a % b) <= b THEN a \div b ELSE (a \div b) + 1

\* Python's round(a / b) for a >= 0, b > 0: ties go to the even integer
PyRound(a, b) ==
    LET q == a \div b
        r == a % b
    IN  IF 2 * r < b THEN q
        ELSE IF 2 * r > b THEN q + 1
        ELSE IF q % 2 = 0 THEN q ELSE q + 1

-----------------------------------------------------------------------------
(* finger_edge *)

\* line 82 mutated: only an exactly negative length is skipped
IsDegenerateNever(Ledge) == Ledge < 0

\* line 82: if Ledge <= 1e-7: return
IsDegenerate(Ledge) == Ledge <= Eps

\* line 86: usable = max(1e-7, Ledge - (T if inner_fit else 0.0))
Usable(Ledge, t, inner_fit) == Max(Eps, Ledge - (IF inner_fit THEN t ELSE 0))

\* lines 87-88 mutated: the count is not forced odd
SegCountNoOdd(usable, tab_w) == Max(1, PyRound(usable, tab_w))

\* lines 87-88: n = max(1, int(round(usable / TAB_W))); if n % 2 == 0: n += 1
SegCount(usable, tab_w) ==
    LET n == Max(1, PyRound(usable, tab_w))
    IN  IF n % 2 = 0 THEN n + 1 ELSE n

\* line 89: pitch = usable / n
Pitch(usable, n) == usable \div n

\* line 90: half = pitch * 0.5
Half(pitch) == pitch \div 2

\* line 98 mutated: polarity ignores male
IsTabIgnoresMale(i, male) == (i % 2) = 0

\* line 98: is_tab = ((i % 2) == 0) == male
IsTab(i, male) == ((i % 2) = 0) = male

\* line 99 mutated: no kerf bias at all
WidthBiasNone(is_tab, k) == 0

\* line 99 mutated: the bias has the opposite sign
WidthBiasSwapped(is_tab, k) == IF is_tab THEN -k ELSE k

\* line 99: width_bias = (K if is_tab else -K)
WidthBias(is_tab, k) == IF is_tab THEN k ELSE -k

\* lines 102-105 and 116-119 mutated: a slot steps outward like a tab
BumpAlwaysOut(is_tab, t) == t

\* lines 102-105 and 116-119: T if is_tab else -T
Bump(is_tab, t) == IF is_tab THEN t ELSE -t

\* lines 94-121: one pass of the loop body, from cursor cur
Segment(cur, i, c) ==
    LET is_tab == IsTab(i, c.male)
        width_bias == WidthBias(is_tab, c.K)
        s1 == pt(cur[1] + c.dir[1] * c.half, cur[2] + c.dir[2] * c.half)
        bump == pt(s1[1] + c.out[1] * Bump(is_tab, c.T),
                   s1[2] + c.out[2] * Bump(is_tab, c.T))
        s2 == pt(bump[1] + c.dir[1] * (c.half + width_bias),
                 bump[2] + c.dir[2] * (c.half + width_bias))
        back == pt(s2[1] - c.out[1] * Bump(is_tab, c.T),
                   s2[2] - c.out[2] * Bump(is_tab, c.T))
    IN  [i |-> i, is_tab |-> is_tab, cur |-> cur, s1 |-> s1, bump |-> bump,
         s2 |-> s2, back |-> back]

\* lines 92-121: for i in range(n), cur = back after each pass
RECURSIVE Walk(_, _, _, _)
Walk(cur, i, n, c) ==
    IF i >= n THEN <<>>
    ELSE LET s == Segment(cur, i, c)
         IN  <<s>> \o Walk(s.back, i + 1, n, c)

\* the four addByTwoPoints calls of one pass (lines 96, 106, 113, 120)
SegLines(s) ==
    << [a |-> s.cur,  b |-> s.s1,   c |-> FALSE],
       [a |-> s.s1,   b |-> s.bump, c |-> FALSE],
       [a |-> s.bump, b |-> s.s2,   c |-> FALSE],
       [a |-> s.s2,   b |-> s.back, c |-> FALSE] >>

RECURSIVE WalkLines(_)
WalkLines(segs) ==
    IF segs = <<>> THEN <<>>
    ELSE SegLines(Head(segs)) \o WalkLines(Tail(segs))

\* lines 124-126 mutated: the closing line is left a normal line
TailLineNotConstruction(cur, end, inner_fit) ==
    IF inner_fit THEN << [a |-> cur, b |-> end, c |-> FALSE] >> ELSE <<>>

\* lines 124-126: if inner_fit: tail = addByTwoPoints(cur, end); construction
TailLine(cur, end, inner_fit) ==
    IF inner_fit THEN << [a |-> cur, b |-> end, c |-> TRUE] >> ELSE <<>>

\* lines 79-126
finger_edge(start, end, out_vec, male, inner_fit, t, k, tab_w) ==
    LET dir_vec == <<end[1] - start[1], end[2] - start[2]>>
        Ledge == VecLength(dir_vec)
    IN  IF IsDegenerate(Ledge)
        THEN [skipped |-> TRUE, Ledge |-> Ledge,
              usable |-> 0, n |-> 0, half |-> 0, segs |-> <<>>,
              cur |-> start, lines |-> <<>>]
        ELSE
        LET usable == Usable(Ledge, t, inner_fit)
            n == SegCount(usable, tab_w)
            half == Half(Pitch(usable, n))
            c == [dir |-> Normalize(dir_vec), out |-> Normalize(out_vec),
                  half |-> half, T |-> t, K |-> k, male |-> male]
            segs == Walk(pt(start[1], start[2]), 0, n, c)
            cur == IF segs = <<>> THEN start ELSE segs[Len(segs)].back
        IN  [skipped |-> FALSE, Ledge |-> Ledge,
             usable |-> usable, n |-> n, half |-> half, segs |-> segs,
             cur |-> cur,
             lines |-> WalkLines(segs) \o TailLine(cur, end, inner_fit)]

-----------------------------------------------------------------------------
(* run: parameter names and defaults *)

Keys == <<"Length", "Width", "Height", "Thickness", "Kerf">>

\* lines 21-24, in tenths of a millimetre
DEFAULTS_MM ==
    [Length |-> 1000, Width |-> 600, Height |-> 600,
     Thickness |-> 30, Kerf |-> 1, TabWidth |-> 120, Gap |-> 30]

\* lines 25-31
NAME_CHOICES ==
    [Length    |-> <<"CtrlBoxLength", "BoxLength", "Length">>,
     Width     |-> <<"CtrlBoxWidth", "BoxWidth", "Width">>,
     Height    |-> <<"CtrnBoxHeigh", "CtrlBoxHeight", "BoxHeight", "Height">>,
     Thickness |-> <<"BoardThickness", "MaterialThickness", "Thickness">>,
     Kerf      |-> <<"Kerf", "LaserKerf">>]

\* lines 38-40 mutated: the last candidate that exists is taken
FirstPresentTakesLast(names, src) ==
    LET found == {i \in 1..Len(names) : names[i] \in DOMAIN src}
    IN  IF found = {} THEN 0
        ELSE CHOOSE i \in found : \A j \in found : i >= j

\* lines 38-40 mutated: the first candidate name is never looked up
FirstPresentSkipsFirst(names, src) ==
    LET found == {i \in 2..Len(names) : names[i] \in DOMAIN src}
    IN  IF found = {} THEN 0
        ELSE CHOOSE i \in found : \A j \in found : i <= j

\* lines 38-40: index of the first candidate that itemByName finds, 0 if none
FirstPresent(names, src) ==
    LET found == {i \in 1..Len(names) : names[i] \in DOMAIN src}
    IN  IF found = {} THEN 0
        ELSE CHOOSE i \in found : \A j \in found : i <= j

\* lines 41-44 mutated: the default is stored without its unit
CreateParamNoUnit(src, n, default_tenth_mm) ==
    [x \in DOMAIN src \cup {n} |-> IF x = n THEN default_tenth_mm ELSE src[x]]

\* lines 41-44: userParameters.add(n, createByString(f"{default_mm} mm"), ...)
CreateParam(src, n, default_tenth_mm) ==
    [x \in DOMAIN src \cup {n} |->
        IF x = n THEN mm_to_internal(default_tenth_mm) ELSE src[x]]

\* lines 37-45
get_or_create_len(names, default_tenth_mm, src) ==
    LET i == FirstPresent(names, src)
    IN  IF i # 0
        THEN [value |-> src[names[i]], name |-> names[i], src |-> src,
              added |-> <<>>]
        ELSE LET created == CreateParam(src, names[1], default_tenth_mm)
             IN  [value |-> created[names[1]], name |-> names[1],
                  src |-> created, added |-> <<names[1]>>]

\* lines 53-54
TAB_W == mm_to_internal(DEFAULTS_MM.TabWidth)

GAP == mm_to_internal(DEFAULTS_MM.Gap)

-----------------------------------------------------------------------------
(* run: panels *)

Panels == {"front", "leftp", "rightp", "back", "top", "bottom"}

\* lines 137-142: the order in which the panels are drawn
PanelOrder == <<"front", "leftp", "rightp", "back", "top", "bottom">>

\* lines 129-135
xFront(w) == w + GAP

yFront(h) == h + GAP

xLeft == 0

\* line 132 mutated: the right panel starts at the front panel's right edge
xRightNoGap(l, w) == xFront(w) + l

xRight(l, w) == xFront(w) + l + GAP

xBack(l, w) == xRight(l, w) + w + GAP

yTop(h) == yFront(h) + h + GAP

yBottom == 0

\* lines 137-142: the arguments of panel_rect for panel p
PanelArgs(p, l, w, h) ==
    CASE p = "front"  -> [x0 |-> xFront(w),   y0 |-> yFront(h), w |-> l, h |-> h]
      [] p = "leftp"  -> [x0 |-> xLeft,       y0 |-> yFront(h), w |-> w, h |-> h]
      [] p = "rightp" -> [x0 |-> xRight(l, w), y0 |-> yFront(h), w |-> w, h |-> h]
      [] p = "back"   -> [x0 |-> xBack(l, w),  y0 |-> yFront(h), w |-> l, h |-> h]
      [] p = "top"    -> [x0 |-> xFront(w),   y0 |-> yTop(h),   w |-> l, h |-> h]
      [] p = "bottom" -> [x0 |-> xFront(w),   y0 |-> yBottom,   w |-> l, h |-> h]

\* lines 64-75 mutated: width and height are swapped
panel_rect_swapped(x0, y0, w, h) ==
    LET p0 == pt(x0, y0)
        p1 == pt(x0 + h, y0)
        p2 == pt(x0 + h, y0 + w)
        p3 == pt(x0, y0 + w)
    IN  << <<p0, p1>>, <<p1, p2>>, <<p2, p3>>, <<p3, p0>> >>

\* lines 64-75: the four lines bottom, right, top, left as <<start, end>>
panel_rect(x0, y0, w, h) ==
    LET p0 == pt(x0, y0)
        p1 == pt(x0 + w, y0)
        p2 == pt(x0 + w, y0 + h)
        p3 == pt(x0, y0 + h)
    IN  << <<p0, p1>>, <<p1, p2>>, <<p2, p3>>, <<p3, p0>> >>

\* lines 145-148
up == <<0, 1>>

down == <<0, -1>>

vecR == <<1, 0>>

vecL == <<-1, 0>>

\* line 157 mutated: finger_edge is always called with male=True
RowAlwaysMale(p, e, o, m, i) ==
    [panel |-> p, edge |-> e, out |-> o, male |-> TRUE, inner_fit |-> i]

\* line 157 mutated: finger_edge is always called with inner_fit=True
RowAlwaysInnerFit(p, e, o, m, i) ==
    [panel |-> p, edge |-> e, out |-> o, male |-> m, inner_fit |-> TRUE]

\* line 153 mutated: the left edge (3) is looked up as the right edge (1)
RowLeftIsRight(p, e, o, m, i) ==
    [panel |-> p, edge |-> IF e = 3 THEN 1 ELSE e, out |-> o, male |-> m,
     inner_fit |-> i]

\* line 157 mutated: a female edge gets the vector pointing left
RowFemaleLeft(p, e, o, m, i) ==
    [panel |-> p, edge |-> e, out |-> IF m THEN o ELSE <<-1, 0>>,
     male |-> m, inner_fit |-> i]

\* lines 152-157: the arguments of one replace_edge call
Row(p, e, o, m, i) ==
    [panel |-> p, edge |-> e, out |-> o, male |-> m, inner_fit |-> i]

\* lines 159-196: the replace_edge calls, in order; edge is 0..3
Seams ==
    << Row("front",  1, vecR, TRUE,  FALSE), Row("rightp", 3, vecL, FALSE, TRUE),
       Row("rightp", 1, vecR, TRUE,  FALSE), Row("back",   3, vecL, FALSE, TRUE),
       Row("back",   1, vecR, TRUE,  FALSE), Row("leftp",  3, vecL, FALSE, TRUE),
       Row("leftp",  1, vecR, TRUE,  FALSE), Row("front",  3, vecL, FALSE, TRUE),
       Row("top",    0, up,   TRUE,  TRUE),  Row("front",  2, down, FALSE, FALSE),
       Row("top",    1, vecR, TRUE,  TRUE),  Row("rightp", 2, up,   FALSE, FALSE),
       Row("top",    2, up,   TRUE,  TRUE),  Row("back",   0, down, FALSE, FALSE),
       Row("top",    3, vecL, TRUE,  TRUE),  Row("leftp",  2, up,   FALSE, FALSE),
       Row("bottom", 2, up,   TRUE,  TRUE),  Row("front",  0, up,   FALSE, FALSE),
       Row("bottom", 1, vecR, TRUE,  TRUE),  Row("rightp", 0, up,   FALSE, FALSE),
       Row("bottom", 0, down, TRUE,  TRUE),  Row("back",   2, up,   FALSE, FALSE),
       Row("bottom", 3, vecL, TRUE,  TRUE),  Row("leftp",  0, up,   FALSE, FALSE) >>

\* a sketch line: endpoints a, b; c is isConstruction.  own and rect are
\* bookkeeping of the model: the panel edge the line was drawn for, and
\* whether it is one of the panel's four rectangle lines
SkLine(a, b, c, own, rect) ==
    [a |-> a, b |-> b, c |-> c, own |-> own, rect |-> rect]

Tagged(lines, own) ==
    [j \in 1..Len(lines) |->
        SkLine(lines[j].a, lines[j].b, lines[j].c, own, FALSE)]

\* lines 152-157: the sketch after replace_edge
replace_edge(sketch, line_index, own, out_vec, male, inner_fit, t, k) ==
    LET line == sketch[line_index]
        pstart == line.a
        pend == line.b
        fe == finger_edge(pstart, pend, out_vec, male, inner_fit, t, k, TAB_W)
    IN  [sketch EXCEPT ![line_index].c = TRUE] \o Tagged(fe.lines, own)

-----------------------------------------------------------------------------
(* Bounds and initial states *)

\* run is called at most MaxRuns times
MaxRuns == 2

\* the host finds a profile for all panels but at most MaxMissing, or none
MaxMissing == 1

\* a host call that raises inside finger_edge does so after at most
\* MaxPartialLines lines of the path were drawn
MaxPartialLines == 1

AllNames ==
    UNION {{NAME_CHOICES[k][i] : i \in 1..Len(NAME_CHOICES[k])} :
              k \in DOMAIN NAME_CHOICES}

\* the value (tenths of a millimetre) a user parameter has when it exists
\* before the first run; the values under one key differ from each other
\* and from the key's default
PresetTenthMm(n) ==
    CASE n = "CtrlBoxLength" -> 360   [] n = "BoxLength" -> 480
      [] n = "Length" -> 900
      [] n = "CtrlBoxWidth" -> 480    [] n = "BoxWidth" -> 0
      [] n = "Width" -> 300
      [] n = "CtrnBoxHeigh" -> 20     [] n = "CtrlBoxHeight" -> 360
      [] n = "BoxHeight" -> 480       [] n = "Height" -> 900
      [] n = "BoardThickness" -> 60   [] n = "MaterialThickness" -> 40
      [] n = "Thickness" -> 20
      [] n = "Kerf" -> 0              [] n = "LaserKerf" -> 2

\* the user parameters that exist before the first run: none, the first
\* candidate of a key, a middle or a last candidate, or two candidates of
\* one key
PresentSets ==
    {{}} \cup {{NAME_CHOICES[k][1]} : k \in DOMAIN NAME_CHOICES}
        \cup {{"BoxWidth"}, {"Height"}}
        \cup {{"BoxLength", "Length"}, {"Kerf", "LaserKerf"}}

Sources == {[n \in P |-> mm_to_internal(PresetTenthMm(n))] : P \in PresentSets}

NoPanels == [p \in Panels |-> <<>>]

\* the panels of set S in the order the panels were drawn
RECURSIVE OrderFrom(_, _)
OrderFrom(S, i) ==
    IF i > Len(PanelOrder) THEN <<>>
    ELSE (IF PanelOrder[i] \in S THEN <<PanelOrder[i]>> ELSE <<>>)
         \o OrderFrom(S, i + 1)

InPanelOrder(S) == OrderFrom(S, 1)

\* what sk.profiles may hold when it is not empty
ProfileSets ==
    {Panels \ M : M \in {Q \in SUBSET Panels : Cardinality(Q) <= MaxMissing}}

InitLocals ==
    /\ src0 = params
    /\ pc = "idle"
    /\ idx = 0
    /\ runs = 0
    /\ L = 0 /\ W = 0 /\ H = 0 /\ T = 0 /\ K = 0
    /\ pnames = <<>>
    /\ added = <<>>
    /\ prev = <<>>
    /\ sk = <<>>
    /\ panels = NoPanels
    /\ calls = <<>>
    /\ profs = <<>>
    /\ bodies = <<>>
    /\ ui = <<>>
    /\ log = <<>>

\* FitSizer before its run is called
FitIdle ==
    [pc |-> "idle", w |-> 0, sizes |-> <<>>, num |-> 0, i |-> 0,
     bodies |-> <<>>, idx |-> 0]

\* Insert_TwoBy before the add-in is started: no command definition, no
\* toolbar button, no global bound
AddinIdle ==
    [pc |-> 0, op |-> "idle", prog |-> <<>>, defs |-> <<>>, btns |-> {},
     dup |-> {}, bound |-> FALSE, hist |-> <<>>, resources |-> TRUE]

Init ==
    /\ design \in BOOLEAN
    /\ params \in Sources
    /\ InitLocals
    /\ feCall = <<>>
    /\ fit = FitIdle
    /\ addin = AddinIdle

-----------------------------------------------------------------------------
(* run, step by step *)

\* what a run leaves for the next one to be compared with
Summary ==
    [L |-> L, W |-> W, H |-> H, T |-> T, K |-> K, pnames |-> pnames,
     params |-> params, added |-> added, pc |-> pc]

ResetLocals ==
    /\ L' = 0 /\ W' = 0 /\ H' = 0 /\ T' = 0 /\ K' = 0
    /\ pnames' = <<>>
    /\ added' = <<>>
    /\ sk' = <<>>
    /\ panels' = NoPanels
    /\ calls' = <<>>
    /\ profs' = <<>>
    /\ bodies' = <<>>

\* lines 9-18 with a design open
Begin ==
    /\ pc \in {"idle", "done"}
    /\ runs < MaxRuns
    /\ design
    /\ runs' = runs + 1
    /\ prev' = IF runs = 0 THEN <<>> ELSE <<Summary>>
    /\ ResetLocals
    /\ ui' = <<>>
    /\ pc' = "params"
    /\ idx' = 1
    /\ UNCHANGED <<design, params, feCall, fit, addin>>
    /\ log' = <<>>
    /\ src0' = params

\* lines 13-16: no design, message box and return
BeginNoDesign ==
    /\ pc \in {"idle", "done"}
    /\ runs < MaxRuns
    /\ ~design
    /\ runs' = runs + 1
    /\ prev' = IF runs = 0 THEN <<>> ELSE <<Summary>>
    /\ ResetLocals
    /\ ui' = <<"Open a Fusion design first.">>
    /\ pc' = "done"
    /\ idx' = 0
    /\ UNCHANGED <<design, params, feCall, fit, addin>>
    /\ log' = <<>>
    /\ src0' = params

\* lines 47-51: the idx-th get_or_create_len call
GetParam ==
    /\ pc = "params"
    /\ LET key == Keys[idx]
           r == get_or_create_len(NAME_CHOICES[key], DEFAULTS_MM[key], params)
       IN  /\ params' = r.src
           /\ added' = added \o r.added
           /\ pnames' = Append(pnames, r.name)
           /\ L' = IF key = "Length" THEN r.value ELSE L
           /\ W' = IF key = "Width" THEN r.value ELSE W
           /\ H' = IF key = "Height" THEN r.value ELSE H
           /\ T' = IF key = "Thickness" THEN r.value ELSE T
           /\ K' = IF key = "Kerf" THEN r.value ELSE K
    /\ IF idx < Len(Keys)
       THEN pc' = "params" /\ idx' = idx + 1
       ELSE pc' = "sketch" /\ idx' = 0
    /\ UNCHANGED <<design, runs, src0, prev, sk, panels, calls, profs, bodies,
                   ui, log, feCall, fit, addin>>

\* lines 57-58: root.sketches.add
NewSketch ==
    /\ pc = "sketch"
    /\ sk' = <<>>
    /\ pc' = "panels"
    /\ idx' = 1
    /\ UNCHANGED <<design, params, runs, L, W, H, T, K, pnames, added, src0, prev,
                   panels, calls, profs, bodies, ui, log, feCall, fit, addin>>

\* lines 137-142: the idx-th panel_rect call
PanelRect ==
    /\ pc = "panels"
    /\ LET p == PanelOrder[idx]
           a == PanelArgs(p, L, W, H)
           r == panel_rect(a.x0, a.y0, a.w, a.h)
       IN  /\ sk' = sk \o [e \in 1..4 |->
                         SkLine(r[e][1], r[e][2], FALSE, <<p, e - 1>>, TRUE)]
           /\ panels' = [panels EXCEPT ![p] = [e \in 1..4 |-> Len(sk) + e]]
    /\ IF idx < Len(PanelOrder)
       THEN pc' = "panels" /\ idx' = idx + 1
       ELSE pc' = "seams" /\ idx' = 1
    /\ UNCHANGED <<design, params, runs, L, W, H, T, K, pnames, added, src0, prev,
                   calls, profs, bodies, ui, log, feCall, fit, addin>>

\* lines 159-196: the idx-th replace_edge call
ReplaceEdge ==
    /\ pc = "seams"
    /\ LET s == Seams[idx]
           li == panels[s.panel][s.edge + 1]
           fe == finger_edge(sk[li].a, sk[li].b, s.out, s.male, s.inner_fit,
                             T, K, TAB_W)
           after == replace_edge(sk, li, <<s.panel, s.edge>>, s.out, s.male,
                                 s.inner_fit, T, K)
       IN  /\ sk' = after
           /\ calls' = Append(calls,
                  [panel |-> s.panel, edge |-> s.edge, out |-> s.out,
                   male |-> s.male, inner_fit |-> s.inner_fit,
                   start |-> sk[li].a, end |-> sk[li].b, n |-> fe.n,
                   usable |-> fe.usable, cur |-> fe.cur,
                   first |-> Len(sk) + 1, last |-> Len(after)])
    /\ IF idx < Len(Seams)
       THEN pc' = "seams" /\ idx' = idx + 1
       ELSE pc' = "profiles" /\ idx' = 0
    /\ UNCHANGED <<design, params, runs, L, W, H, T, K, pnames, added, src0, prev,
                   panels, profs, bodies, ui, log, feCall, fit, addin>>

\* lines 199-202 mutated: the empty snapshot is reported, but an extrusion
\* is requested all the same
NoProfilesExtrudes ==
    /\ pc = "profiles"
    /\ profs' = <<>>
    /\ bodies' = Append(bodies, [prof |-> "front", dist |-> T,
                                 op |-> "NewBodyFeatureOperation", ok |-> TRUE])
    /\ ui' = Append(ui, "No profiles found")
    /\ pc' = "done"
    /\ idx' = 0
    /\ UNCHANGED <<design, params, runs, L, W, H, T, K, pnames, added, src0, prev,
                   sk, panels, calls, log, feCall, fit, addin>>

\* lines 199-202: the host found no profile
NoProfiles ==
    /\ pc = "profiles"
    /\ profs' = <<>>
    /\ ui' = Append(ui, "No profiles found")
    /\ pc' = "done"
    /\ idx' = 0
    /\ UNCHANGED <<design, params, runs, L, W, H, T, K, pnames, added, src0, prev,
                   sk, panels, calls, bodies, log, feCall, fit, addin>>

\* line 199: profs = [p for p in sk.profiles], whatever the host found
SnapshotProfiles ==
    /\ pc = "profiles"
    /\ \E S \in ProfileSets : profs' = InPanelOrder(S)
    /\ pc' = "extrude"
    /\ idx' = 1
    /\ UNCHANGED <<design, params, runs, L, W, H, T, K, pnames, added, src0, prev,
                   sk, panels, calls, bodies, ui, log, feCall, fit, addin>>

\* lines 206-207 mutated: the profile is extruded one unit too deep
AddSimpleDeeper(pr, dist, ok) ==
    [prof |-> pr, dist |-> dist + 1, op |-> "NewBodyFeatureOperation",
     ok |-> ok]

\* lines 206-207: the arguments of extrudes.addSimple for profile pr
AddSimple(pr, dist, ok) ==
    [prof |-> pr, dist |-> dist, op |-> "NewBodyFeatureOperation", ok |-> ok]

\* lines 204-212: extrudes.addSimple for the idx-th profile
Extrude ==
    /\ pc = "extrude"
    /\ bodies' = Append(bodies, AddSimple(profs[idx], T, TRUE))
    /\ IF idx < Len(profs)
       THEN pc' = "extrude" /\ idx' = idx + 1
       ELSE pc' = "message" /\ idx' = 0
    /\ UNCHANGED <<design, params, runs, L, W, H, T, K, pnames, added, src0, prev,
                   sk, panels, calls, profs, ui, log, feCall, fit, addin>>

\* lines 214-218 mutated: a snapshot with fewer than six profiles is
\* reported instead of the completion message
MessageSurfacesMissing ==
    /\ pc = "message"
    /\ ui' = Append(ui, IF Len(profs) < 6 THEN "No profiles found"
                        ELSE "Tabbed T-pattern created and extruded.")
    /\ pc' = "done"
    /\ UNCHANGED <<design, params, idx, runs, L, W, H, T, K, pnames, added,
                   src0, prev, sk, panels, calls, profs, bodies, log, feCall, fit, addin>>

\* lines 214-218
Message ==
    /\ pc = "message"
    /\ ui' = Append(ui, "Tabbed T-pattern created and extruded.")
    /\ pc' = "done"
    /\ UNCHANGED <<design, params, idx, runs, L, W, H, T, K, pnames, added,
                   src0, prev, sk, panels, calls, profs, bodies, log, feCall, fit, addin>>

\* lines 220-221: except: app.log(...), and run returns
Failed == Append(log, "Failed")

\* lines 38-44 mutated: after a raising host call the lookup is logged and
\* tried again
ParamFailsRetries ==
    /\ pc = "params"
    /\ log = <<>>
    /\ log' = Failed
    /\ UNCHANGED <<design, params, pc, idx, runs, L, W, H, T, K, pnames, added,
                   src0, prev, sk, panels, calls, profs, bodies, ui, feCall, fit, addin>>

\* lines 38-44 and 220-221: itemByName or userParameters.add raises during
\* the idx-th get_or_create_len call; nothing is created
ParamFails ==
    /\ pc = "params"
    /\ log' = Failed
    /\ pc' = "done"
    /\ UNCHANGED <<design, params, idx, runs, L, W, H, T, K, pnames, added, src0,
                   prev, sk, panels, calls, profs, bodies, ui, feCall, fit, addin>>

\* lines 152-157 mutated: a raising host call is swallowed and run goes on
\* with the next replace_edge call
SeamFailsGoesOn ==
    /\ pc = "seams"
    /\ idx < Len(Seams)
    /\ sk' = [sk EXCEPT ![panels[Seams[idx].panel][Seams[idx].edge + 1]].c
                  = TRUE]
    /\ log' = Failed
    /\ idx' = idx + 1
    /\ UNCHANGED <<design, params, pc, runs, L, W, H, T, K, pnames, added,
                   src0, prev, panels, calls, profs, bodies, ui, feCall, fit, addin>>

\* lines 152-157 and 220-221: a host call raises during the idx-th
\* replace_edge call, after the rectangle line was flagged and m lines of
\* the finger path were drawn
SeamFails ==
    /\ pc = "seams"
    /\ LET s == Seams[idx]
           li == panels[s.panel][s.edge + 1]
           after == replace_edge(sk, li, <<s.panel, s.edge>>, s.out, s.male,
                                 s.inner_fit, T, K)
       IN  \E m \in 0..MaxPartialLines :
               /\ Len(sk) + m < Len(after)
               /\ sk' = SubSeq(after, 1, Len(sk) + m)
    /\ log' = Failed
    /\ pc' = "done"
    /\ UNCHANGED <<design, params, idx, runs, L, W, H, T, K, pnames, added,
                   src0, prev, panels, calls, profs, bodies, ui, feCall, fit, addin>>

\* lines 206-207 mutated: a raising addSimple is caught inside the loop
\* and the loop goes on with the next profile
ExtrudeFailsIsolated ==
    /\ pc = "extrude"
    /\ bodies' = Append(bodies, AddSimple(profs[idx], T, FALSE))
    /\ log' = Failed
    /\ IF idx < Len(profs)
       THEN pc' = "extrude" /\ idx' = idx + 1
       ELSE pc' = "message" /\ idx' = 0
    /\ UNCHANGED <<design, params, runs, L, W, H, T, K, pnames, added,
                   src0, prev, sk, panels, calls, profs, ui, feCall, fit, addin>>

\* lines 206-207 and 220-221: extrudes.addSimple raises for the idx-th
\* profile
ExtrudeFails ==
    /\ pc = "extrude"
    /\ bodies' = Append(bodies, AddSimple(profs[idx], T, FALSE))
    /\ log' = Failed
    /\ pc' = "done"
    /\ UNCHANGED <<design, params, idx, runs, L, W, H, T, K, pnames, added,
                   src0, prev, sk, panels, calls, profs, ui, feCall, fit, addin>>

Next ==
    \/ Begin
    \/ BeginNoDesign
    \/ GetParam
    \/ NewSketch
    \/ PanelRect
    \/ ReplaceEdge
    \/ NoProfiles
    \/ SnapshotProfiles
    \/ Extrude
    \/ Message
    \/ ParamFails
    \/ SeamFails
    \/ ExtrudeFails

Spec == Init /\ [][Next]_vars

-----------------------------------------------------------------------------
(* The edge generator on its own: one call of finger_edge on an edge, an   *)
(* outward vector, a polarity and parameters drawn from bounded sets       *)

\* edge lengths are 6 mm steps up to 6 * MaxLenK mm
MaxLenK == 16

EdgeLens == {0, 1, Eps, 2 * Eps} \cup {Mm(6 * j) : j \in 1..MaxLenK}

EdgeStart == pt(Mm(5), Mm(7))

OutVecs == {up, down, vecR, vecL, <<0, 2>>, <<-3, 0>>}

\* the outward vector of an edge is perpendicular to the edge
Perpendicular(u, v) == u[1] * v[1] + u[2] * v[2] = 0

EdgeT == {Mm(3), Mm(6)}

EdgeK == {0, mm_to_internal(1)}

EdgeTabW == {Mm(12), Mm(8)}

InitEdge ==
    /\ design = TRUE
    /\ params = << >>
    /\ InitLocals
    /\ feCall = <<>>
    /\ fit = FitIdle
    /\ addin = AddinIdle

CallFingerEdge ==
    /\ feCall = <<>>
    /\ \E d \in {up, down, vecR, vecL}, len \in EdgeLens, o \in OutVecs,
          m \in BOOLEAN, inner \in BOOLEAN, t \in EdgeT, k \in EdgeK,
          tab_w \in EdgeTabW :
          /\ Perpendicular(d, o)
          /\ LET end == pt(EdgeStart[1] + d[1] * len, EdgeStart[2] + d[2] * len)
             IN  feCall' = << [start |-> EdgeStart, end |-> end, dir |-> d,
                               Ledge |-> len, out_vec |-> o, male |-> m,
                               inner_fit |-> inner, T |-> t, K |-> k,
                               TAB_W |-> tab_w,
                               r |-> finger_edge(EdgeStart, end, o, m, inner,
                                                 t, k, tab_w)] >>
    /\ UNCHANGED <<runVars, fit, addin>>

NextEdge == CallFingerEdge

SpecEdge == InitEdge /\ [][NextEdge]_vars

\* the calls made so far (none or one)
FeCalls == {feCall[j] : j \in 1..Len(feCall)}

-----------------------------------------------------------------------------
(* Claims about finger_edge, checked under SpecEdge *)

\* the first and the last point a call emitted
FirstPoint(r) == r.lines[1].a

LastPoint(r) == r.lines[Len(r.lines)].b

\* C1: for every edge longer than 1e-7, every positive thickness and tab
\* width and either value of inner_fit, the number of segments finger_edge
\* walks is odd and at least 1
C1_SegmentCountOdd ==
    \A c \in FeCalls :
        c.Ledge > Eps =>
            /\ c.r.n >= 1
            /\ c.r.n % 2 = 1
            /\ Len(c.r.segs) = c.r.n

\* C1 witness: an edge whose rounded quotient is even, so that the count
\* was raised to the next odd number
C1_Witness ==
    \E c \in FeCalls :
        /\ c.Ledge > Eps
        /\ PyRound(c.r.usable, c.TAB_W) = 4
        /\ c.r.n = 5
        /\ c.inner_fit

\* C2 as stated: without inner_fit the first emitted point is the edge's
\* start and the last emitted point is the edge's end, whatever the kerf,
\* the polarity and the segment count
C2_EndpointsAsClaimed ==
    \A c \in FeCalls :
        (c.Ledge > Eps /\ ~c.inner_fit) =>
            /\ FirstPoint(c.r) = c.start
            /\ LastPoint(c.r) = c.end

\* C3: with inner_fit set and usable < L, the last line emitted runs from
\* the final walked point to the edge's end and is construction-only, and
\* every other line emitted for the edge is not construction
C3_TailIsOnlyConstructionLine ==
    \A c \in FeCalls :
        (c.Ledge > Eps /\ c.inner_fit /\ c.r.usable < c.Ledge) =>
            LET m == Len(c.r.lines)
            IN  /\ m = 4 * c.r.n + 1
                /\ c.r.lines[m].a = c.r.segs[c.r.n].back
                /\ c.r.lines[m].b = c.end
                /\ c.r.lines[m].c = TRUE
                /\ \A j \in 1..(m - 1) : c.r.lines[j].c = FALSE

\* C3 witness: an inner-fit edge of several segments whose walk stops short
\* of the end
C3_Witness ==
    \E c \in FeCalls :
        /\ c.inner_fit
        /\ c.r.usable < c.Ledge
        /\ c.r.n >= 3
        /\ c.r.lines[Len(c.r.lines)].a # c.end

\* C5: on the same edge with the same other parameters, male = TRUE and
\* male = FALSE give the same number of segments, and at every index the
\* is_tab flags of the two calls are opposite
C5_PolaritySymmetry ==
    \A c \in FeCalls :
        LET o == finger_edge(c.start, c.end, c.out_vec, ~c.male, c.inner_fit,
                             c.T, c.K, c.TAB_W)
        IN  /\ Len(o.segs) = Len(c.r.segs)
            /\ \A j \in 1..Len(c.r.segs) :
                   o.segs[j].is_tab = ~c.r.segs[j].is_tab

\* C5 witness: a call that walked at least three segments
C5_Witness ==
    \E c \in FeCalls : Len(c.r.segs) >= 3 /\ c.r.segs[2].is_tab = ~c.male

\* a segment protrudes when its offset step went along the outward vector
Protrudes(c, s) ==
    s.bump = pt(s.s1[1] + Normalize(c.out_vec)[1] * c.T,
                s.s1[2] + Normalize(c.out_vec)[2] * c.T)

\* C6: in every segment the first advance along the edge direction is
\* half = pitch / 2, and the advance at the offset level is half + kerf in
\* a tab and half - kerf in a slot
C6_KerfBias ==
    \A c \in FeCalls :
        \A j \in 1..Len(c.r.segs) :
            LET s == c.r.segs[j]
                half == c.r.half
                adv == half + (IF Protrudes(c, s) THEN c.K ELSE -c.K)
            IN  /\ 2 * c.r.n * half = c.r.usable
                /\ s.s1 = pt(s.cur[1] + c.dir[1] * half,
                             s.cur[2] + c.dir[2] * half)
                /\ s.s2 = pt(s.bump[1] + c.dir[1] * adv,
                             s.bump[2] + c.dir[2] * adv)
                /\ Protrudes(c, s) = s.is_tab

\* C6 witness: a call with kerf > 0 that walked a tab and a slot
C6_Witness ==
    \E c \in FeCalls :
        /\ c.K > 0
        /\ \E i, j \in 1..Len(c.r.segs) :
               Protrudes(c, c.r.segs[i]) /\ ~Protrudes(c, c.r.segs[j])

-----------------------------------------------------------------------------
(* Claims about run, checked under Spec *)

\* the non-construction lines drawn for panel p
Cuttable(p) == {j \in 1..Len(sk) : sk[j].own[1] = p /\ ~sk[j].c}

\* the lines of set S, other than j, that have point e as an endpoint
Meeting(S, j, e) == {i \in S \ {j} : sk[i].a = e \/ sk[i].b = e}

\* C4 as stated: after all 24 edge replacements, for each panel the
\* non-construction lines drawn for it form one closed loop: every endpoint
\* of such a line is an endpoint of exactly one other such line of the panel
C4_PanelOutlinesClosed ==
    Len(calls) = Len(Seams) =>
        \A p \in Panels :
            \A j \in Cuttable(p) :
                /\ Cardinality(Meeting(Cuttable(p), j, sk[j].a)) = 1
                /\ Cardinality(Meeting(Cuttable(p), j, sk[j].b)) = 1

\* the box L=100, W=60, H=60, T=3, Kerf=0.1 (mm)
DefaultBox ==
    /\ L = Mm(100) /\ W = Mm(60) /\ H = Mm(60) /\ T = Mm(3)
    /\ K = Scale \div 10
    /\ TAB_W = Mm(12)

RingSeams ==
    << <<"front", "rightp">>, <<"rightp", "back">>, <<"back", "leftp">>,
       <<"leftp", "front">> >>

\* C7: for the box L=100, W=60, H=60, T=3, Kerf=0.1, tab width 12, each of
\* the four vertical ring seams gets the same segment count on its male
\* side without inner fit and on its female side with inner fit
C7_RingSeamCountsMatch ==
    DefaultBox =>
        \A j \in 1..4 :
            2 * j <= Len(calls) =>
                LET m == calls[2 * j - 1]
                    f == calls[2 * j]
                IN  /\ <<m.panel, f.panel>> = RingSeams[j]
                    /\ m.edge = 1 /\ f.edge = 3
                    /\ m.male /\ ~m.inner_fit
                    /\ ~f.male /\ f.inner_fit
                    /\ m.n = f.n
                    /\ m.n >= 1

\* C7 witness: the default box with all four ring seams walked
C7_Witness ==
    /\ DefaultBox
    /\ Len(calls) >= 8
    /\ calls[1].n = 5
    /\ calls[2].usable = Mm(57)

ValueOf(key) ==
    CASE key = "Length" -> L
      [] key = "Width" -> W
      [] key = "Height" -> H
      [] key = "Thickness" -> T
      [] key = "Kerf" -> K

\* C8: a run that follows a run which read all five parameters gets the
\* same Length, Width, Height, Thickness and Kerf as that run and adds no
\* parameter to the source; in particular two runs in a row from an empty
\* source
C8_SecondRunSameValues ==
    (prev # <<>> /\ Len(prev[1].pnames) = Len(Keys)) =>
        /\ added = <<>>
        /\ params = prev[1].params
        /\ \A i \in 1..Len(pnames) :
               /\ pnames[i] = prev[1].pnames[i]
               /\ ValueOf(Keys[i]) = prev[1][CASE i = 1 -> "L" [] i = 2 -> "W"
                                              [] i = 3 -> "H" [] i = 4 -> "T"
                                              [] i = 5 -> "K"]

\* C8 witness: the second run has ended after a first run that started from
\* an empty source and created all five parameters
C8_Witness ==
    /\ runs = 2
    /\ pc = "done"
    /\ Len(pnames) = Len(Keys)
    /\ prev # <<>>
    /\ Len(prev[1].added) = Len(Keys)

\* the documented defaults 100, 60, 60, 3 and 0.10 mm
DocumentedDefault(key) ==
    CASE key = "Length" -> Mm(100)
      [] key = "Width" -> Mm(60)
      [] key = "Height" -> Mm(60)
      [] key = "Thickness" -> Mm(3)
      [] key = "Kerf" -> Scale \div 10

Candidates(key) ==
    {NAME_CHOICES[key][i] : i \in 1..Len(NAME_CHOICES[key])}

\* C9: for each key none of whose candidate names existed when the run
\* began, run uses the documented default and stores it under the first
\* candidate name; after a run on an empty source exactly five parameters
\* are stored, one per key
C9_DefaultsUsedAndStored ==
    /\ \A i \in 1..Len(pnames) :
           Candidates(Keys[i]) \cap DOMAIN src0 = {} =>
               /\ ValueOf(Keys[i]) = DocumentedDefault(Keys[i])
               /\ pnames[i] = NAME_CHOICES[Keys[i]][1]
               /\ pnames[i] \in DOMAIN params
               /\ params[pnames[i]] = DocumentedDefault(Keys[i])
    /\ (src0 = << >> /\ Len(pnames) = Len(Keys)) =>
           /\ DOMAIN params = {NAME_CHOICES[Keys[i]][1] : i \in 1..Len(Keys)}
           /\ Cardinality(DOMAIN params) = 5

\* C9 witness: a run on an empty source has read its five parameters
C9_Witness ==
    /\ src0 = << >>
    /\ runs = 1
    /\ Len(pnames) = Len(Keys)
    /\ Len(added) = Len(Keys)
    /\ pc = "done"

-----------------------------------------------------------------------------
(* Claims about the seam table, failures and extrusion, checked under Spec *)

\* positions in bodies of the addSimple calls that raised
FailedAt == {j \in 1..Len(bodies) : ~bodies[j].ok}

Completion == "Tabbed T-pattern created and extruded."

\* C11 as stated: when the extrusion of one profile of six fails, the other
\* five profiles are still submitted (and extruded), and the run ends with
\* its completion report
C11_FailureIsolatedAsClaimed ==
    (pc = "done" /\ Len(profs) = 6 /\ FailedAt # {}) =>
        /\ Len(bodies) = 6
        /\ Cardinality(FailedAt) = 1
        /\ ui # <<>>

\* C11 amended: when the extrusion call fails for a profile, the run ends
\* there: the profiles before it are extruded, no later profile is
\* submitted, the failure is logged and no message box is shown
C11_FailureEndsRun ==
    \A j \in FailedAt :
        /\ j = Len(bodies)
        /\ pc = "done"
        /\ log = <<"Failed">>
        /\ ui = <<>>
        /\ \A i \in 1..(j - 1) : bodies[i].ok /\ bodies[i].prof = profs[i]
        /\ bodies[j].prof = profs[j]

\* C11 witness: of six profiles the third failed after two were extruded
C11_Witness ==
    /\ Len(profs) = 6
    /\ FailedAt = {3}
    /\ pc = "done"

\* the seams whose two replace_edge calls have both completed
SeamsDone == {j \in 1..12 : 2 * j <= Len(calls)}

\* the first and the second replace_edge call of seam j
Side1(j) == calls[2 * j - 1]

Side2(j) == calls[2 * j]

\* C12 as stated: for every seam of the table the two finger paths have the
\* same segment count and the same pitch, so their segment boundaries lie at
\* the same distances along the seam
C12_SeamBoundariesAlign ==
    \A j \in SeamsDone :
        /\ Side1(j).n = Side2(j).n
        /\ Side1(j).n > 0 =>
               Pitch(Side1(j).usable, Side1(j).n)
                   = Pitch(Side2(j).usable, Side2(j).n)

Neg(v) == <<-v[1], -v[2]>>

\* C13 as stated: in each of the 12 seams the outward vector passed for the
\* first side is the negation of the one passed for the second side
C13_OutwardAntiParallelAsClaimed ==
    \A j \in SeamsDone : Side1(j).out = Neg(Side2(j).out)

\* seams by the relation of their two outward vectors: the four ring seams,
\* top-front, top-back and bottom-back; top-right, top-left, bottom-right
\* and bottom-left; bottom-front
AntiParallelSeams == {1, 2, 3, 4, 5, 7, 11}

PerpendicularSeams == {6, 8, 10, 12}

EqualSeams == {9}

\* C13 amended: the two outward vectors are anti-parallel in the four ring
\* seams and in the seams top-front, top-back and bottom-back; they are
\* perpendicular in top-right, top-left, bottom-right and bottom-left, and
\* equal (both up) in bottom-front
C13_OutwardVectorsBySeam ==
    \A j \in SeamsDone :
        /\ j \in AntiParallelSeams => Side1(j).out = Neg(Side2(j).out)
        /\ j \in PerpendicularSeams =>
               Perpendicular(Side1(j).out, Side2(j).out)
        /\ j \in EqualSeams =>
               (Side1(j).out = Side2(j).out /\ Side1(j).out = up)
        /\ VecLength(Side1(j).out) = 1 /\ VecLength(Side2(j).out) = 1

\* C13 witness: all 12 seams processed, the top-right seam among them with
\* perpendicular vectors
C13_Witness ==
    /\ Len(calls) = 24
    /\ Side1(6).panel = "top" /\ Side2(6).panel = "rightp"
    /\ Side1(6).out = vecR /\ Side2(6).out = up

\* C14: in each of the 12 seams the first replace_edge call is male and the
\* second is female
C14_FirstMaleSecondFemale ==
    /\ \A i \in 1..Len(calls) : calls[i].male = (i % 2 = 1)
    /\ \A j \in SeamsDone : Side1(j).male /\ ~Side2(j).male

\* C14 witness: all 24 calls made, the last seam's sides male then female
C14_Witness ==
    /\ Len(calls) = 24
    /\ Side1(12).male
    /\ ~Side2(12).male

SidePanels == {"front", "rightp", "back", "leftp"}

\* C15: in each of the 12 seams exactly one side has inner_fit: in the four
\* ring seams the female side of the next panel, in the eight top and
\* bottom seams the male edge of the top or bottom panel, the side panel's
\* edge being female without inner fit
C15_OneInnerFitSidePerSeam ==
    \A j \in SeamsDone :
        /\ Side1(j).inner_fit # Side2(j).inner_fit
        /\ j <= 4 =>
               /\ <<Side1(j).panel, Side2(j).panel>> = RingSeams[j]
               /\ Side2(j).inner_fit /\ ~Side2(j).male
               /\ ~Side1(j).inner_fit /\ Side1(j).male
        /\ j > 4 =>
               /\ Side1(j).panel \in {"top", "bottom"}
               /\ Side1(j).inner_fit /\ Side1(j).male
               /\ Side2(j).panel \in SidePanels
               /\ ~Side2(j).inner_fit /\ ~Side2(j).male

\* C15 witness: all 12 seams processed, a top seam and a bottom seam with
\* the inner fit on their first side
C15_Witness ==
    /\ Len(calls) = 24
    /\ Side1(5).panel = "top" /\ Side1(5).inner_fit
    /\ Side1(9).panel = "bottom" /\ Side1(9).inner_fit
    /\ Side2(1).inner_fit

\* the (panel, edge index) pairs of the replace_edge calls made
CallPairs == {<<calls[i].panel, calls[i].edge>> : i \in 1..Len(calls)}

RectLines == {j \in 1..Len(sk) : sk[j].rect}

\* C19: run calls replace_edge exactly 24 times, each (panel, edge index)
\* pair of the six panels in exactly one call; after layout all 24
\* rectangle lines are construction-only
C19_EveryEdgeReplacedOnce ==
    /\ Len(calls) <= 24
    /\ Cardinality(CallPairs) = Len(calls)
    /\ pc \in {"profiles", "extrude", "message"} => Len(calls) = 24
    /\ Len(calls) = 24 =>
           LET cut == {j \in 1..Len(sk) : ~sk[j].c}
               rect == RectLines
           IN  /\ CallPairs = Panels \X (0..3)
               /\ Cardinality(rect) = 24
               /\ \A j \in rect : sk[j].c
               /\ rect \cap cut = {}

\* C19 witness: the layout is finished and extrusion has begun
C19_Witness ==
    /\ Len(calls) = 24
    /\ pc = "extrude"
    /\ Cardinality(RectLines) = 24

\* the replace_edge calls whose edge direction is shorter than 1e-7
DegenerateCalls ==
    {i \in 1..Len(calls) :
        IsDegenerate(VecLength(<<calls[i].end[1] - calls[i].start[1],
                                 calls[i].end[2] - calls[i].start[2]>>))}

\* C16 as stated: an edge direction or outward vector shorter than 1e-7
\* makes generation fail and aborts the whole layout: no further seam is
\* processed and no extrusion is requested
C16_DegenerateAbortsAsClaimed ==
    \A i \in DegenerateCalls :
        /\ Len(calls) = i
        /\ bodies = <<>>

\* C16 amended: an edge direction shorter than 1e-7 raises nothing, the
\* call emits no geometry and logs nothing; the outward vectors of the
\* table are unit vectors; what aborts the layout is an error raised by a
\* host call while a seam is processed: it is logged, no further seam is
\* processed and no extrusion is requested
C16_DegenerateSkippedHostErrorAborts ==
    /\ \A i \in 1..Len(calls) : VecLength(calls[i].out) = 1
    /\ \A i \in DegenerateCalls :
           /\ calls[i].n = 0
           /\ calls[i].cur = calls[i].start
           /\ calls[i].last < calls[i].first
    /\ (DegenerateCalls # {} /\ pc # "done") => log = <<>>
    /\ log # <<>> => pc = "done"
    /\ (log # <<>> /\ Len(calls) < 24) =>
           /\ bodies = <<>>
           /\ profs = <<>>
           /\ ui = <<>>

\* C16 witness: a layout that went on after a degenerate edge and was then
\* aborted by a host error in a later seam
C16_Witness ==
    /\ \E i \in DegenerateCalls : i < Len(calls)
    /\ log = <<"Failed">>
    /\ Len(calls) < 24
    /\ pc = "done"

\* the texts shown to the user other than the completion message
Surfaced == {j \in 1..Len(ui) : ui[j] # Completion}

\* C17 as stated: when one panel has no closed profile after layout, this
\* is surfaced to the caller and the other five panels are extruded
C17_MissingPanelSurfacedAsClaimed ==
    (pc = "done" /\ log = <<>> /\ Len(profs) = 5) =>
        /\ Len(bodies) = 5
        /\ Surfaced # {}

\* C17 amended: a panel without closed profile is not surfaced: the
\* profiles that exist are all extruded and the run ends with the
\* completion message alone; only a sketch with no profile at all is
\* reported ("No profiles found"), and then nothing is extruded
C17_OnlyEmptySketchSurfaced ==
    /\ (pc = "done" /\ log = <<>> /\ profs # <<>>) =>
           /\ bodies = [j \in 1..Len(profs) |-> AddSimple(profs[j], T, TRUE)]
           /\ ui = <<Completion>>
    /\ (Len(calls) = 24 /\ Surfaced # {}) =>
           /\ ui = <<"No profiles found">>
           /\ profs = <<>>
           /\ bodies = <<>>
           /\ pc = "done"
    /\ \A j \in 1..Len(bodies) :
           \E i \in 1..Len(profs) : bodies[j].prof = profs[i]

\* C17 witness: a finished run whose sketch lacked one panel's profile
C17_Witness ==
    /\ pc = "done"
    /\ log = <<>>
    /\ Len(profs) = 5
    /\ Len(bodies) = 5
    /\ ui = <<Completion>>

\* the extrusions requested for profile pr
Submitted(pr) == {j \in 1..Len(bodies) : bodies[j].prof = pr}

\* C18 as stated: every profile present when layout finishes is submitted
\* for extrusion exactly once, as a new body of depth T
C18_EveryProfileExtrudedAsClaimed ==
    (pc = "done" /\ profs # <<>>) =>
        \A i \in 1..Len(profs) :
            /\ Cardinality(Submitted(profs[i])) = 1
            /\ \A j \in Submitted(profs[i]) :
                   /\ bodies[j].dist = T
                   /\ bodies[j].op = "NewBodyFeatureOperation"

\* C18 amended: the profiles of the snapshot are submitted in order, each
\* at most once, as a new body of depth T; when the run completes every
\* profile has been submitted exactly once; when a submission raises, the
\* profiles after it are not submitted
C18_ExtrudedOnceAtDepthT ==
    /\ Len(bodies) <= Len(profs)
    /\ \A j \in 1..Len(bodies) :
           /\ bodies[j].prof = profs[j]
           /\ bodies[j].dist = T
           /\ bodies[j].op = "NewBodyFeatureOperation"
    /\ \A i \in 1..Len(profs) : Cardinality(Submitted(profs[i])) <= 1
    /\ (pc = "message" \/ (pc = "done" /\ log = <<>> /\ profs # <<>>)) =>
           \A i \in 1..Len(profs) :
               /\ Cardinality(Submitted(profs[i])) = 1
               /\ bodies[i].ok
    /\ \A j \in FailedAt :
           \A i \in (j + 1)..Len(profs) : Submitted(profs[i]) = {}

\* C18 witness: a completed run that extruded six profiles
C18_Witness ==
    /\ pc = "done"
    /\ log = <<>>
    /\ Len(profs) = 6
    /\ Len(bodies) = 6
    /\ bodies[6].dist = T
    /\ T > 0

-----------------------------------------------------------------------------
(* A further claim about finger_edge, checked under SpecEdge *)

\* the point at distance d from the start of call c along its direction
Along(c, d) == pt(c.start[1] + c.dir[1] * d, c.start[2] + c.dir[2] * d)

Tabs(r) == {j \in 1..Len(r.segs) : r.segs[j].is_tab}

\* C20: after the n segments of an edge the cursor lies at distance
\* usable + kerf from start along the edge direction when male and at
\* usable - kerf when female (n is odd, tabs and slots differ by one), so
\* the walked length is usable only when kerf = 0
C20_WalkedLength ==
    \A c \in FeCalls :
        c.Ledge > Eps =>
            /\ Len(c.r.segs) = c.r.n
            /\ c.r.n % 2 = 1
            /\ 2 * Cardinality(Tabs(c.r)) - c.r.n = (IF c.male THEN 1 ELSE -1)
            /\ c.r.cur = Along(c, c.r.usable + (IF c.male THEN c.K ELSE -c.K))
            /\ (c.r.cur = Along(c, c.r.usable)) <=> (c.K = 0)

\* C20 witness: a male and kerfed edge of at least three segments whose
\* cursor ends beyond usable
C20_Witness ==
    \E c \in FeCalls :
        /\ c.male
        /\ c.K > 0
        /\ c.r.n >= 3
        /\ c.r.cur = Along(c, c.r.usable + c.K)
        /\ c.r.cur # Along(c, c.r.usable)

\* the perpendicular offset of point p from the baseline of call c, measured
\* along the normalized outward vector
Offset(c, p) ==
    (p[1] - c.start[1]) * Normalize(c.out_vec)[1]
        + (p[2] - c.start[2]) * Normalize(c.out_vec)[2]

\* C21: after every completed segment the cursor is back on the baseline,
\* and the two intermediate points of a segment are at perpendicular offset
\* exactly +T along the outward vector for a tab and exactly -T for a slot
C21_BaselineAndOffsets ==
    \A c \in FeCalls :
        \A j \in 1..Len(c.r.segs) :
            LET s == c.r.segs[j]
                off == IF s.is_tab THEN c.T ELSE -c.T
            IN  /\ Offset(c, s.cur) = 0
                /\ Offset(c, s.s1) = 0
                /\ Offset(c, s.bump) = off
                /\ Offset(c, s.s2) = off
                /\ Offset(c, s.back) = 0

\* C21 witness: a walk of at least three segments, the second a slot at
\* offset -T, returning to the baseline after the last one
C21_Witness ==
    \E c \in FeCalls :
        /\ c.male
        /\ Len(c.r.segs) >= 3
        /\ c.T > 0
        /\ Offset(c, c.r.segs[1].bump) = c.T
        /\ Offset(c, c.r.segs[2].s2) = -c.T
        /\ Offset(c, c.r.cur) = 0

\* C22: n = r when r is odd and n = r + 1 when r is even, where
\* r = max(1, round(usable / TAB_W)) and usable = max(1e-7, L - T) with
\* inner_fit, L without; r <= n <= r + 1 and n * pitch = usable; round
\* takes the nearest integer and, at a quotient of exactly k + 0.5, the even
\* one
C22_SegmentCountFromRound ==
    \A c \in FeCalls :
        c.Ledge > Eps =>
            LET usable == c.r.usable
                r0 == PyRound(usable, c.TAB_W)
                r == IF r0 < 1 THEN 1 ELSE r0
                n == c.r.n
            IN  /\ usable = (IF c.inner_fit
                             THEN (IF c.Ledge - c.T > Eps THEN c.Ledge - c.T
                                   ELSE Eps)
                             ELSE c.Ledge)
                /\ 2 * Abs(usable - r0 * c.TAB_W) <= c.TAB_W
                /\ 2 * Abs(usable - r0 * c.TAB_W) = c.TAB_W => r0 % 2 = 0
                /\ n = (IF r % 2 = 1 THEN r ELSE r + 1)
                /\ r <= n /\ n <= r + 1
                /\ n * Pitch(usable, n) = usable

\* C22 witness: a quotient of exactly 1.5, rounded to 2 and raised to 3
C22_Witness ==
    \E c \in FeCalls :
        /\ ~c.inner_fit
        /\ 2 * c.r.usable = 3 * c.TAB_W
        /\ c.r.n = 3

-----------------------------------------------------------------------------
(* Further claims about run, checked under Spec *)

\* the length of the panel edge a replace_edge call was given
EdgeLength(cl) ==
    VecLength(<<cl.end[1] - cl.start[1], cl.end[2] - cl.start[2]>>)

\* C23 as stated: for every seam of the table and all positive L, W, H the
\* two panel edges paired by the seam have the same length before inner-fit
\* shortening
C23_PairedEdgesSameLength ==
    \A j \in SeamsDone :
        (L > 0 /\ W > 0 /\ H > 0) =>
            EdgeLength(Side1(j)) = EdgeLength(Side2(j))

\* all six panel rectangles have been drawn
AllDrawn == \A p \in Panels : Len(panels[p]) = 4

\* the e-th rectangle line (1 bottom, 2 right, 3 top, 4 left) of panel p
RectLine(p, e) == sk[panels[p][e]]

\* the corners of panel p: bottom left and top right
BL(p) == RectLine(p, 1).a

TR(p) == RectLine(p, 2).b

\* the interiors of two drawn panels do not overlap
Disjoint(p, q) ==
    \/ TR(p)[1] <= BL(q)[1] \/ TR(q)[1] <= BL(p)[1]
    \/ TR(p)[2] <= BL(q)[2] \/ TR(q)[2] <= BL(p)[2]

\* q lies to the right of p at distance g, over the same range of y
RightOf(p, q, g) ==
    /\ BL(q)[1] - TR(p)[1] = g
    /\ BL(q)[2] = BL(p)[2]
    /\ TR(q)[2] = TR(p)[2]

\* q lies above p at distance g, over the same range of x
Above(p, q, g) ==
    /\ BL(q)[2] - TR(p)[2] = g
    /\ BL(q)[1] = BL(p)[1]
    /\ TR(q)[1] = TR(p)[1]

\* C24: for positive L, W, H the six panel rectangles have pairwise
\* disjoint interiors, the neighbours of the net (left-front, front-right,
\* right-back, front-top, front-bottom) are separated by exactly the gap,
\* and each rectangle's lines run bottom, right, top, left, each ending
\* where the next starts
C24_NetLayout ==
    (AllDrawn /\ L > 0 /\ W > 0 /\ H > 0) =>
        /\ \A p, q \in Panels : p # q => Disjoint(p, q)
        /\ RightOf("leftp", "front", GAP)
        /\ RightOf("front", "rightp", GAP)
        /\ RightOf("rightp", "back", GAP)
        /\ Above("front", "top", GAP)
        /\ Above("bottom", "front", GAP)
        /\ \A p \in Panels :
               /\ \A e \in 1..4 :
                      /\ RectLine(p, e).own = <<p, e - 1>>
                      /\ RectLine(p, e).b = RectLine(p, (e % 4) + 1).a
               /\ BL(p)[1] < TR(p)[1] /\ BL(p)[2] < TR(p)[2]
               /\ RectLine(p, 1).b = pt(TR(p)[1], BL(p)[2])
               /\ RectLine(p, 3).b = pt(BL(p)[1], TR(p)[2])

\* C24 witness: the six rectangles of a box whose width differs from its
\* height have been drawn and the seams are being processed
C24_Witness ==
    /\ AllDrawn
    /\ L > 0 /\ 0 < W /\ W < H
    /\ pc = "seams"
    /\ RightOf("front", "rightp", GAP)
    /\ GAP > 0

\* the non-construction lines drawn by finger_edge for edge e of panel p
Fingers(p, e) ==
    {j \in 1..Len(sk) : sk[j].own = <<p, e>> /\ ~sk[j].rect /\ ~sk[j].c}

\* every point of the finger lines of edge e of panel p has coordinate ax
\* (1 for x, 2 for y) strictly below v
StaysBelow(p, e, ax, v) ==
    \A j \in Fingers(p, e) : sk[j].a[ax] < v /\ sk[j].b[ax] < v

StaysAbove(p, e, ax, v) ==
    \A j \in Fingers(p, e) : sk[j].a[ax] > v /\ sk[j].b[ax] > v

\* the neighbours of the net side by side, left one first, and one above
\* the other, lower one first
SideBySide ==
    {<<"leftp", "front">>, <<"front", "rightp">>, <<"rightp", "back">>}

Stacked == {<<"bottom", "front">>, <<"front", "top">>}

\* C25 as stated: with the default parameters no non-construction point
\* emitted for an edge of one panel lies on or beyond the facing edge line
\* of the neighbouring panel in the net
C25_FingersStayInsideGap ==
    (DefaultBox /\ AllDrawn) =>
        /\ \A n \in SideBySide :
               /\ StaysBelow(n[1], 1, 1, BL(n[2])[1])
               /\ StaysAbove(n[2], 3, 1, TR(n[1])[1])
        /\ \A n \in Stacked :
               /\ StaysBelow(n[1], 2, 2, BL(n[2])[2])
               /\ StaysAbove(n[2], 0, 2, TR(n[1])[2])

\* C26: within one run all five parameters are read or created before any
\* sketch line is drawn, all six panel rectangles are drawn before the
\* first edge replacement, no extrusion is requested before all 24 edge
\* replacements have completed, and none at all when the profile snapshot
\* is empty
C26_StepsInFixedOrder ==
    /\ Len(pnames) <= 5
    /\ sk # <<>> => (Len(pnames) = 5 /\ pc \notin {"params", "sketch"})
    /\ calls # <<>> => (AllDrawn /\ pc \notin {"params", "sketch", "panels"})
    /\ pc = "seams" => (AllDrawn /\ Len(calls) = idx - 1)
    /\ bodies # <<>> =>
           /\ Len(calls) = 24
           /\ profs # <<>>
           /\ pc \in {"extrude", "message", "done"}
    /\ profs = <<>> => bodies = <<>>
    /\ (\E j \in 1..Len(ui) : ui[j] = "No profiles found") =>
           (Len(calls) = 24 /\ profs = <<>> /\ bodies = <<>>)

\* C26 witness: the second extrusion has been requested, after five
\* parameters, six rectangles and 24 edge replacements
C26_Witness ==
    /\ pc = "extrude"
    /\ Len(bodies) = 2
    /\ Len(calls) = 24
    /\ AllDrawn
    /\ Len(pnames) = 5

\* the first k lines of the sketch have kept their endpoints
LinesKept(k) ==
    /\ Len(sk') >= k
    /\ \A j \in 1..k : sk'[j].a = sk[j].a /\ sk'[j].b = sk[j].b

\* a step in which an error is logged
ErrorStep == log' # log /\ log' # <<>>

\* C27: an error raised during parameter lookup, seam processing or
\* extrusion ends the run at that step: it is logged once, no later seam
\* is processed, no later profile is extruded, nothing is retried, the
\* completion message is not shown; the parameters, sketch lines and
\* bodies created before the error stay as they are
C27_ErrorEndsRun ==
    [][ /\ ErrorStep =>
               /\ log' = <<"Failed">>
               /\ pc' = "done"
               /\ ui' = <<>>
               /\ params' = params
               /\ calls' = calls
               /\ LinesKept(Len(sk))
               /\ SubSeq(bodies', 1, Len(bodies)) = bodies
               /\ \A j \in 1..Len(bodies') : bodies'[j].ok <=> j <= Len(bodies)
               /\ profs' = profs
        /\ log # <<>> =>
               /\ pc = "done"
               /\ runs' = runs + 1
               /\ log' = <<>>
               /\ pc' \in {"params", "done"}
      ]_vars

\* C27 witness: a run that created a parameter, then failed in a later
\* lookup: the created parameter is still there and nothing was drawn
C27_Witness ==
    /\ pc = "done"
    /\ log = <<"Failed">>
    /\ Len(pnames) \in 1..4
    /\ added # <<>>
    /\ \A j \in 1..Len(added) : added[j] \in DOMAIN params
    /\ sk = <<>>
    /\ ui = <<>>

\* the positions, in the candidate list of key, of the names that existed
\* when the run began
PresentAt(key) ==
    {j \in 1..Len(NAME_CHOICES[key]) : NAME_CHOICES[key][j] \in DOMAIN src0}

\* the names created by the run so far
Added == {added[j] : j \in 1..Len(added)}

\* C28: for each key get_or_create_len returns the value of the first name
\* of the key's candidate list that exists in the parameter source; it
\* creates a parameter only when no candidate exists, then under the list's
\* first name; when a candidate exists it leaves the source unchanged
C28_FirstPresentCandidate ==
    /\ \A i \in 1..Len(pnames) :
           LET key == Keys[i]
               names == NAME_CHOICES[key]
               at == PresentAt(key)
           IN  IF at # {}
               THEN \E j \in at :
                        /\ \A m \in at : j <= m
                        /\ pnames[i] = names[j]
                        /\ ValueOf(key) = src0[names[j]]
                        /\ Candidates(key) \cap Added = {}
               ELSE /\ pnames[i] = names[1]
                    /\ names[1] \in Added
                    /\ ValueOf(key) = params[names[1]]
                    /\ Candidates(key) \cap Added = {names[1]}
    /\ pc # "idle" =>
           /\ DOMAIN params = DOMAIN src0 \cup Added
           /\ \A n \in DOMAIN src0 : params[n] = src0[n]
           /\ Added \cap DOMAIN src0 = {}
           /\ Cardinality(Added) = Len(added)

\* C28 witness: the second and the third candidate of Length exist, the
\* first does not; the run took the second one and created no Length
\* parameter
C28_Witness ==
    /\ DOMAIN src0 = {"BoxLength", "Length"}
    /\ Len(pnames) = Len(Keys)
    /\ pnames[1] = "BoxLength"
    /\ L = src0["BoxLength"]
    /\ L # src0["Length"]
    /\ "CtrlBoxLength" \notin DOMAIN params
    /\ Len(added) = 4

-----------------------------------------------------------------------------
(* FitSizer/FitSizer.py: run draws one wrench gauge per mouth width,       *)
(* extrudes the profiles, names the bodies and engraves the sizes.         *)
(* Widths are in hundredths of a millimetre.  sketch.profiles.item(i) is   *)
(* taken to be the profile of the i-th gauge drawn.                        *)

\* lines 99-101
minW == 200

maxW == 350

step == 50

\* the format "{:.1f}": the value in tenths, rounded as Python rounds
Format1f(x) == PyRound(x, 10)

\* line 147: f"S{sizes[i]:.1f}"
BodyName(size) == <<"S", Format1f(size)>>

\* line 225: f"{size:.1f}"
SizeText(size) == <<Format1f(size)>>

\* everything but FitSizer's state
notFit == <<runVars, feCall, addin>>

\* lines 87-112: run is called
FitBegin ==
    /\ fit.pc = "idle"
    /\ fit' = [fit EXCEPT !.pc = "draw", !.w = minW, !.sizes = <<>>]
    /\ UNCHANGED notFit

\* lines 113-125: one pass of the while loop, drawing the gauge of width w
FitDraw ==
    /\ fit.pc = "draw"
    /\ fit.w <= maxW
    /\ fit' = [fit EXCEPT !.sizes = Append(fit.sizes, fit.w),
                          !.w = fit.w + step]
    /\ UNCHANGED notFit

\* lines 128-135: numWrenchProfiles = sketch.profiles.count, bodies = []
FitCount ==
    /\ fit.pc = "draw"
    /\ fit.w > maxW
    /\ fit' = [fit EXCEPT !.pc = "extrude", !.num = Len(fit.sizes), !.i = 0,
                          !.bodies = <<>>]
    /\ UNCHANGED notFit

\* lines 137-170: profile i is extruded, its body named and appended
FitExtrude ==
    /\ fit.pc = "extrude"
    /\ fit.i < fit.num
    /\ fit' = [fit EXCEPT
                  !.bodies = Append(fit.bodies,
                                 [name |-> BodyName(fit.sizes[fit.i + 1]),
                                  prof |-> fit.i + 1, text |-> <<>>]),
                  !.i = fit.i + 1]
    /\ UNCHANGED notFit

\* lines 139-143 and 172-173: the extrusion of profile i raises (or yields
\* no body, line 145); the loop goes on with the next profile
FitExtrudeFails ==
    /\ fit.pc = "extrude"
    /\ fit.i < fit.num
    /\ fit' = [fit EXCEPT !.i = fit.i + 1]
    /\ UNCHANGED notFit

\* lines 176-180: the extrude loop has ended
FitToEmboss ==
    /\ fit.pc = "extrude"
    /\ fit.i = fit.num
    /\ fit' = [fit EXCEPT !.pc = "emboss", !.idx = 0]
    /\ UNCHANGED notFit

\* lines 181-243: bodies[idx] is engraved with the text of sizes[idx]
FitEmboss ==
    /\ fit.pc = "emboss"
    /\ fit.idx < Len(fit.sizes)
    /\ fit.idx < Len(fit.bodies)
    /\ fit' = [fit EXCEPT
                  !.bodies[fit.idx + 1].text = SizeText(fit.sizes[fit.idx + 1]),
                  !.idx = fit.idx + 1]
    /\ UNCHANGED notFit

\* lines 189-246: engraving bodies[idx] raises; the loop goes on
FitEmbossFails ==
    /\ fit.pc = "emboss"
    /\ fit.idx < Len(fit.sizes)
    /\ fit.idx < Len(fit.bodies)
    /\ fit' = [fit EXCEPT !.idx = fit.idx + 1]
    /\ UNCHANGED notFit

\* lines 181-183 and 250: the sizes are exhausted or no body is left
FitDone ==
    /\ fit.pc = "emboss"
    /\ (fit.idx >= Len(fit.sizes) \/ fit.idx >= Len(fit.bodies))
    /\ fit' = [fit EXCEPT !.pc = "done"]
    /\ UNCHANGED notFit

InitFit ==
    /\ design = TRUE
    /\ params = << >>
    /\ InitLocals
    /\ feCall = <<>>
    /\ fit = FitIdle
    /\ addin = AddinIdle

NextFit ==
    \/ FitBegin
    \/ FitDraw
    \/ FitCount
    \/ FitExtrude
    \/ FitExtrudeFails
    \/ FitToEmboss
    \/ FitEmboss
    \/ FitEmbossFails
    \/ FitDone

SpecFit == InitFit /\ [][NextFit]_vars

\* the mouth width of the gauge that body b was extruded from
GaugeSize(b) == fit.sizes[b.prof]

\* C29 as stated: for the mouth widths 2.0, 2.5, 3.0, 3.5 every body that
\* is created is named S{size} and engraved with the text of that same
\* size, also when the extrusion of an earlier profile failed and was
\* skipped
C29_BodyAndLabelMatch ==
    \A j \in 1..Len(fit.bodies) :
        LET b == fit.bodies[j]
        IN  /\ b.name = <<"S", GaugeSize(b) \div 10>>
            /\ b.text # <<>> => b.text = <<GaugeSize(b) \div 10>>

-----------------------------------------------------------------------------
(* Insert_TwoBy/Insert_TwoBy.py: the add-in's entry points run and stop    *)
(* and the reload command's notify, step by step over the host's command   *)
(* definitions and toolbar buttons.  The host calls them one at a time.    *)
(* The host refuses a command definition or a button whose id exists.      *)

\* at most MaxOps calls of run, stop and notify
MaxOps == 3

\* lines 43 and 54; lines 298 and 302
LumberId == "lumberDimensionSelector"

ReloadId == "reloadInsertTwoBy"

CommandIds == {LumberId, ReloadId}

Step(kind, id, grp) == [kind |-> kind, id |-> id, grp |-> grp]

\* lines 183-201 with 30-61: LumberSelector.start, as call number g
LumberStart(g) ==
    << Step("check", LumberId, g), Step("deldef", LumberId, g),
       Step("adddef", LumberId, g), Step("addbtn", LumberId, g) >>

\* lines 292-315: ReloadCommand.start
ReloadStart(g) ==
    << Step("deldef", ReloadId, g), Step("adddef", ReloadId, g),
       Step("addbtn", ReloadId, g) >>

\* lines 203-218: LumberSelector.stop
LumberStop(g) == << Step("delbtn", LumberId, g), Step("deldef", LumberId, g) >>

\* lines 317-331: ReloadCommand.stop
ReloadStop(g) == << Step("delbtn", ReloadId, g), Step("deldef", ReloadId, g) >>

\* lines 359-368
RunProgram == LumberStart(1) \o ReloadStart(2)

\* lines 376-382: the globals are unbound before the first run, and the
\* NameError is caught
StopProgram(bound) == IF bound THEN LumberStop(1) \o ReloadStop(2) ELSE <<>>

\* lines 338-351
NotifyProgram == LumberStop(1) \o LumberStart(2)

\* the number of command definitions with this id
Count(defs, id) == Cardinality({j \in 1..Len(defs) : defs[j] = id})

\* cmd_def.deleteMe(): the definitions without the first one of this id
RECURSIVE Without(_, _)
Without(defs, id) ==
    IF defs = <<>> THEN <<>>
    ELSE IF Head(defs) = id THEN Tail(defs)
    ELSE <<Head(defs)>> \o Without(Tail(defs), id)

\* where a raised exception continues: behind the steps of the call that
\* catches it
Caught(prog, at) ==
    LET later == {j \in (at + 1)..Len(prog) : prog[j].grp # prog[at].grp}
    IN  IF later = {} THEN Len(prog) + 1
        ELSE CHOOSE j \in later : \A m \in later : j <= m

\* everything but the add-in's state
notAddin == <<runVars, feCall, fit>>

\* lines 359-368: run(context)
AddinRun ==
    /\ addin.op = "idle"
    /\ Len(addin.hist) < MaxOps
    /\ addin' = [addin EXCEPT !.op = "run", !.prog = RunProgram, !.pc = 1,
                              !.bound = TRUE,
                              !.hist = Append(addin.hist, "run")]
    /\ UNCHANGED notAddin

\* lines 376-387: stop(context)
AddinStop ==
    /\ addin.op = "idle"
    /\ Len(addin.hist) < MaxOps
    /\ addin' = [addin EXCEPT !.op = "stop",
                              !.prog = StopProgram(addin.bound), !.pc = 1,
                              !.hist = Append(addin.hist, "stop")]
    /\ UNCHANGED notAddin

\* lines 338-357: the reload button is pressed and its definition's
\* commandCreated handler is notified
AddinNotify ==
    /\ ReloadId \in addin.btns
    /\ Count(addin.defs, ReloadId) > 0
    /\ addin.op = "idle"
    /\ Len(addin.hist) < MaxOps
    /\ addin' = [addin EXCEPT !.op = "notify", !.prog = NotifyProgram,
                              !.pc = 1,
                              !.hist = Append(addin.hist, "notify")]
    /\ UNCHANGED notAddin

\* the step the add-in is at
AtStep(kind) ==
    /\ addin.op # "idle"
    /\ addin.pc <= Len(addin.prog)
    /\ addin.prog[addin.pc].kind = kind

\* lines 38-39: the resources folder is missing and start catches the
\* exception
CheckResources ==
    /\ AtStep("check")
    /\ addin' = [addin EXCEPT !.pc = IF addin.resources THEN addin.pc + 1
                                     ELSE Caught(addin.prog, addin.pc)]
    /\ UNCHANGED notAddin

\* lines 43-45 mutated: an existing definition is left in place
DeleteDefinitionSkipped ==
    /\ AtStep("deldef")
    /\ addin' = [addin EXCEPT !.pc = addin.pc + 1]
    /\ UNCHANGED notAddin

\* lines 43-45, 213-215, 298-300, 326-328: itemById, and deleteMe when the
\* definition exists; whether the host then drops the definition's button
\* is the host's choice
DeleteDefinition ==
    /\ AtStep("deldef")
    /\ LET id == addin.prog[addin.pc].id
       IN  \E gone \in BOOLEAN :
               addin' = [addin EXCEPT
                   !.defs = Without(addin.defs, id),
                   !.btns = IF gone /\ Count(addin.defs, id) > 0
                            THEN addin.btns \ {id} ELSE addin.btns,
                   !.pc = addin.pc + 1]
    /\ UNCHANGED notAddin

\* lines 53-58 and 301-303: addButtonDefinition; on an id that exists the
\* host raises
AddDefinition ==
    /\ AtStep("adddef")
    /\ LET id == addin.prog[addin.pc].id
       IN  IF Count(addin.defs, id) > 0
           THEN addin' = [addin EXCEPT !.dup = addin.dup \cup {id},
                                       !.pc = Caught(addin.prog, addin.pc)]
           ELSE addin' = [addin EXCEPT !.defs = Append(addin.defs, id),
                                       !.pc = addin.pc + 1]
    /\ UNCHANGED notAddin

\* lines 195-198 and 311-312: panel.controls.addCommand; on a button that
\* exists the host raises
AddButton ==
    /\ AtStep("addbtn")
    /\ LET id == addin.prog[addin.pc].id
       IN  IF id \in addin.btns
           THEN addin' = [addin EXCEPT !.pc = Caught(addin.prog, addin.pc)]
           ELSE addin' = [addin EXCEPT !.btns = addin.btns \cup {id},
                                       !.pc = addin.pc + 1]
    /\ UNCHANGED notAddin

\* lines 207-210 and 320-323: the button is deleted when it exists
DeleteButton ==
    /\ AtStep("delbtn")
    /\ addin' = [addin EXCEPT
                    !.btns = addin.btns \ {addin.prog[addin.pc].id},
                    !.pc = addin.pc + 1]
    /\ UNCHANGED notAddin

\* the entry point returns
AddinReturn ==
    /\ addin.op # "idle"
    /\ addin.pc > Len(addin.prog)
    /\ addin' = [addin EXCEPT !.op = "idle", !.pc = 0, !.prog = <<>>]
    /\ UNCHANGED notAddin

InitAddin ==
    /\ design = TRUE
    /\ params = << >>
    /\ InitLocals
    /\ feCall = <<>>
    /\ fit = FitIdle
    /\ addin \in {[AddinIdle EXCEPT !.resources = r] : r \in BOOLEAN}

NextAddin ==
    \/ AddinRun
    \/ AddinStop
    \/ AddinNotify
    \/ CheckResources
    \/ DeleteDefinition
    \/ AddDefinition
    \/ AddButton
    \/ DeleteButton
    \/ AddinReturn

SpecAddin == InitAddin /\ [][NextAddin]_vars

\* the entry point that returned last
LastOp == IF addin.hist = <<>> THEN "none" ELSE addin.hist[Len(addin.hist)]

\* C30: after any sequence of run, reload notifications and stop at most
\* one command definition of each of the two ids exists, an existing
\* definition being deleted before a new one is added (the host never has
\* to refuse one), and after stop(context) neither command definition nor
\* its toolbar button remains
C30_OneDefinitionNoneAfterStop ==
    /\ \A id \in CommandIds : Count(addin.defs, id) <= 1
    /\ addin.dup = {}
    /\ (addin.op = "idle" /\ LastOp = "stop") =>
           /\ addin.defs = <<>>
           /\ addin.btns = {}

\* C30 witness: run, a reload and stop have returned, and nothing is left
C30_Witness ==
    /\ addin.op = "idle"
    /\ addin.hist = <<"run", "notify", "stop">>
    /\ addin.resources
    /\ addin.defs = <<>>
    /\ addin.btns = {}

=============================================================================
